---------------------------- MODULE Spec2Model ----------------------------
(***************************************************************************)
(* A model of the filter engine of rata-data-viewer: the filter-text       *)
(* parser (src/src/filter.rs, FilterExpr::parse), the mask evaluator       *)
(* (FilterExpr::evaluate) and the facade DataSource::filter                *)
(* (src/src/data/source.rs).                                               *)
(*                                                                         *)
(* A text is a sequence of characters; a character is a one-element name.  *)
(* Rust strings are UTF-8 and every position the code computes is a BYTE   *)
(* offset, so each character carries its UTF-8 length (char_len) and a     *)
(* slice at an offset that is no character boundary aborts (Panic).        *)
(***************************************************************************)
EXTENDS Integers, Sequences, FiniteSets, TLC

VARIABLES pattern, df, out, fexpr,
          filter_pattern, filter_cursor, filter_mode,
          filtered_df, scroll_offset, error_message,
          stack, trace

(* The fields of App next to its data source: data_source.df is df. *)
app_vars == <<filter_pattern, filter_cursor, filter_mode,
              filtered_df, scroll_offset, error_message>>

(* The calls of parse and evaluate that are pending, innermost first, and  *)
(* the calls made so far.                                                  *)
call_vars == <<stack, trace>>

vars == <<pattern, df, out, fexpr, app_vars, call_vars>>

(***************************************************************************)
(* Bounds of the model.                                                    *)
(***************************************************************************)
MaxToks == 5
MaxCmpLen == 4
MaxRows == 3
MaxLeaves == 2
MaxOps == 3
MaxPatLen == 3

(***************************************************************************)
(* Characters.  DOTLESS_I is U+0131 (2 bytes, upper case "I", 1 byte);     *)
(* N_APOS is U+0149 (2 bytes, upper case U+02BC "N", 3 bytes).             *)
(***************************************************************************)
DOTLESS_I == "U+0131"
N_APOS == "U+0149"
MOD_APOS == "U+02BC"

char_len(c) == IF c \in {DOTLESS_I, N_APOS, MOD_APOS} THEN 2 ELSE 1

char_to_uppercase(c) ==
    CASE c = "a" -> <<"A">>
      [] c = "n" -> <<"N">>
      [] c = "d" -> <<"D">>
      [] c = "o" -> <<"O">>
      [] c = "r" -> <<"R">>
      [] c = "t" -> <<"T">>
      [] c = "x" -> <<"X">>
      [] c = "y" -> <<"Y">>
      [] c = "s" -> <<"S">>
      [] c = "q" -> <<"Q">>
      [] c = "b" -> <<"B">>
      [] c = DOTLESS_I -> <<"I">>
      [] c = N_APOS -> <<MOD_APOS, "N">>
      [] OTHER -> <<c>>

RECURSIVE to_uppercase(_)
to_uppercase(s) ==
    IF s = <<>> THEN <<>> ELSE char_to_uppercase(Head(s)) \o to_uppercase(Tail(s))

RECURSIVE byte_len_upto(_, _)
byte_len_upto(s, k) ==
    IF k = 0 THEN 0 ELSE byte_len_upto(s, k - 1) + char_len(s[k])

(* str::len: the length in bytes. *)
byte_len(s) == byte_len_upto(s, Len(s))

is_whitespace(c) == c = " "

RECURSIVE trim_start(_)
trim_start(s) ==
    IF s # <<>> /\ is_whitespace(Head(s)) THEN trim_start(Tail(s)) ELSE s

RECURSIVE trim_end(_)
trim_end(s) ==
    IF s # <<>> /\ is_whitespace(s[Len(s)])
    THEN trim_end(SubSeq(s, 1, Len(s) - 1)) ELSE s

trim(s) == trim_end(trim_start(s))

RECURSIVE trim_start_matches(_, _)
trim_start_matches(s, c) ==
    IF s # <<>> /\ Head(s) = c THEN trim_start_matches(Tail(s), c) ELSE s

RECURSIVE trim_end_matches(_, _)
trim_end_matches(s, c) ==
    IF s # <<>> /\ s[Len(s)] = c
    THEN trim_end_matches(SubSeq(s, 1, Len(s) - 1), c) ELSE s

trim_matches(s, c) == trim_end_matches(trim_start_matches(s, c), c)

matches_at(s, pat, i) ==
    i + Len(pat) <= Len(s) /\ SubSeq(s, i + 1, i + Len(pat)) = pat

(* The least character index (0-based) from i on at which pat occurs in s, *)
(* -1 when there is none.                                                  *)
RECURSIVE first_match(_, _, _)
first_match(s, pat, i) ==
    IF i + Len(pat) > Len(s) THEN -1
    ELSE IF matches_at(s, pat, i) THEN i
    ELSE first_match(s, pat, i + 1)

contains(s, pat) == first_match(s, pat, 0) # -1

min_of(S) == CHOOSE i \in S : \A j \in S : i <= j

(* str::find: the BYTE offset of the leftmost occurrence, -1 for None. *)
find(s, pat) ==
    LET i == first_match(s, pat, 0)
    IN  IF i = -1 THEN -1 ELSE byte_len_upto(s, i)

starts_with(s, pat) == matches_at(s, pat, 0)

(* The number of characters before byte offset b, -1 when b is no character *)
(* boundary of s: k characters, acc bytes, have been passed.                *)
RECURSIVE char_index_from(_, _, _, _)
char_index_from(s, b, k, acc) ==
    IF acc = b THEN k
    ELSE IF acc > b \/ k = Len(s) THEN -1
    ELSE char_index_from(s, b, k + 1, acc + char_len(s[k + 1]))

char_index(s, b) == char_index_from(s, b, 0, 0)

is_char_boundary(s, b) == char_index(s, b) # -1

(* s[..b] and s[b..], defined on character boundaries only. *)
slice_to(s, b) == SubSeq(s, 1, char_index(s, b))
slice_from(s, b) == SubSeq(s, char_index(s, b) + 1, Len(s))

(***************************************************************************)
(* Results.  A Result<FilterExpr> is an expression, an error or an abort.  *)
(***************************************************************************)
Err(kind) == [tag |-> "Err", kind |-> kind]
Panic == [tag |-> "Panic"]
None == [tag |-> "None"]

Comparison(column, op, value) ==
    [tag |-> "Comparison", column |-> column, op |-> op, value |-> value]
And(l, r) == [tag |-> "And", left |-> l, right |-> r]
Or(l, r) == [tag |-> "Or", left |-> l, right |-> r]
Not(e) == [tag |-> "Not", inner |-> e]

is_failure(r) == r.tag \in {"Err", "Panic"}
is_expr(r) == r.tag \in {"Comparison", "And", "Or", "Not"}

KW_OR == <<" ", "O", "R", " ">>
KW_AND == <<" ", "A", "N", "D", " ">>
KW_NOT == <<"N", "O", "T", " ">>

STAR == <<"*">>

(* The operator tokens in the order parse_comparison tries them. *)
operators ==
    << [tok |-> <<">", "=">>, op |-> "GreaterOrEqual"],
       [tok |-> <<"<", "=">>, op |-> "LessOrEqual"],
       [tok |-> <<"!", "=">>, op |-> "NotEqual"],
       [tok |-> <<"=">>, op |-> "Equal"],
       [tok |-> <<">">>, op |-> "GreaterThan"],
       [tok |-> <<"<">>, op |-> "LessThan"],
       [tok |-> <<":">>, op |-> "Contains"] >>

(***************************************************************************)
(* FilterExpr::parse_comparison                                            *)
(***************************************************************************)
(* A variant that falls back to global search when a part is empty. *)
parse_comparison_at_fallback(input, k) ==
    LET op_str == operators[k].tok
        pos == find(input, op_str)
        column == trim(slice_to(input, pos))
        value == trim_matches(
                     trim_matches(trim(slice_from(input, pos + byte_len(op_str))),
                                  "\""),
                     "'")
    IN  IF column = <<>> \/ value = <<>>
        THEN Comparison(STAR, "Contains", input)
        ELSE Comparison(column, operators[k].op, value)

parse_comparison_at(input, k) ==
    LET op_str == operators[k].tok
        pos == find(input, op_str)
        column == trim(slice_to(input, pos))
        value == trim_matches(
                     trim_matches(trim(slice_from(input, pos + byte_len(op_str))),
                                  "\""),
                     "'")
    IN  IF column = <<>> \/ value = <<>>
        THEN Err("InvalidComparison")
        ELSE Comparison(column, operators[k].op, value)

(* A variant that takes the operator occurring leftmost in the text. *)
parse_comparison_leftmost(input) ==
    LET found == {k \in 1..Len(operators) : find(input, operators[k].tok) # -1}
        leftmost == CHOOSE k \in found :
                        \A j \in found :
                            \/ find(input, operators[k].tok) < find(input, operators[j].tok)
                            \/ /\ find(input, operators[k].tok) = find(input, operators[j].tok)
                               /\ k <= j
    IN  IF found # {}
        THEN parse_comparison_at(input, leftmost)
        ELSE Comparison(STAR, "Contains", input)

(* A variant that strips the quotes of a global search text too. *)
parse_comparison_unquoted(input) ==
    LET found == {k \in 1..Len(operators) : find(input, operators[k].tok) # -1}
    IN  IF found # {}
        THEN parse_comparison_at(input, min_of(found))
        ELSE Comparison(STAR, "Contains",
                        trim_matches(trim_matches(input, "\""), "'"))

parse_comparison(input) ==
    LET found == {k \in 1..Len(operators) : find(input, operators[k].tok) # -1}
    IN  IF found # {}
        THEN parse_comparison_at(input, min_of(found))
        ELSE Comparison(STAR, "Contains", input)

(***************************************************************************)
(* FilterExpr::parse and its three keyword steps                           *)
(***************************************************************************)
RECURSIVE parse(_)
RECURSIVE try_parse_or(_)
RECURSIVE try_parse_and(_)
RECURSIVE try_parse_not(_)

try_parse_or(input) ==
    LET input_upper == to_uppercase(input)
        pos == find(input_upper, KW_OR)
    IN  IF pos = -1 THEN None
        ELSE IF ~is_char_boundary(input, pos) \/ ~is_char_boundary(input, pos + 4)
        THEN Panic
        ELSE LET left_expr == parse(trim(slice_to(input, pos)))
             IN  IF is_failure(left_expr) THEN left_expr
                 ELSE LET right_expr == parse(trim(slice_from(input, pos + 4)))
                      IN  IF is_failure(right_expr) THEN right_expr
                          ELSE Or(left_expr, right_expr)

try_parse_and(input) ==
    LET input_upper == to_uppercase(input)
        pos == find(input_upper, KW_AND)
    IN  IF pos = -1 THEN None
        ELSE IF ~is_char_boundary(input, pos) \/ ~is_char_boundary(input, pos + 5)
        THEN Panic
        ELSE LET left_expr == parse(trim(slice_to(input, pos)))
             IN  IF is_failure(left_expr) THEN left_expr
                 ELSE LET right_expr == parse(trim(slice_from(input, pos + 5)))
                      IN  IF is_failure(right_expr) THEN right_expr
                          ELSE And(left_expr, right_expr)

try_parse_not(input) ==
    LET input_upper == to_uppercase(input)
    IN  IF starts_with(input_upper, KW_NOT)
        THEN IF ~is_char_boundary(input, 4) THEN Panic
             ELSE LET inner_expr == parse(trim(slice_from(input, 4)))
                  IN  IF is_failure(inner_expr) THEN inner_expr
                      ELSE Not(inner_expr)
        ELSE None

(* A variant that tries NOT before the AND split. *)
parse_trimmed_not_first(input) ==
    IF input = <<>> THEN Err("EmptyExpression")
    ELSE LET o == try_parse_or(input)
         IN  IF o.tag # "None" THEN o
             ELSE LET n == try_parse_not(input)
                  IN  IF n.tag # "None" THEN n
                      ELSE LET a == try_parse_and(input)
                           IN  IF a.tag # "None" THEN a
                               ELSE parse_comparison(input)

parse_trimmed(input) ==
    IF input = <<>> THEN Err("EmptyExpression")
    ELSE LET o == try_parse_or(input)
         IN  IF o.tag # "None" THEN o
             ELSE LET a == try_parse_and(input)
                  IN  IF a.tag # "None" THEN a
                      ELSE LET n == try_parse_not(input)
                           IN  IF n.tag # "None" THEN n
                               ELSE parse_comparison(input)

parse(input) == parse_trimmed(trim(input))

(***************************************************************************)
(* Tables.  A table (DataFrame) is a sequence of columns of one height; a  *)
(* column has a name, a dtype, its slots (data) and their validity (a slot *)
(* with valid FALSE is null).  A mask (BooleanChunked) has one entry per   *)
(* row, "true", "false" or "null".                                         *)
(***************************************************************************)
Column(name, dtype, data, valid) ==
    [name |-> name, dtype |-> dtype, data |-> data, valid |-> valid]

height(t) == IF t = <<>> THEN 0 ELSE Len(t[1].data)

has_column(t, name) == \E c \in 1..Len(t) : t[c].name = name

(* DataFrame::column *)
column(t, name) == t[CHOOSE c \in 1..Len(t) : t[c].name = name]

(* Column::str succeeds on a String column only. *)
is_str(col) == col.dtype = "String"

Mask(m) == [tag |-> "Mask", mask |-> m]
Ok(t) == [tag |-> "Ok", table |-> t]

bool_entry(b) == IF b THEN "true" ELSE "false"

(* BooleanChunked &, | and !: three-valued (Kleene) on null entries. *)
and_entry(a, b) ==
    IF a = "false" \/ b = "false" THEN "false"
    ELSE IF a = "null" \/ b = "null" THEN "null"
    ELSE "true"

or_entry(a, b) ==
    IF a = "true" \/ b = "true" THEN "true"
    ELSE IF a = "null" \/ b = "null" THEN "null"
    ELSE "false"

(* A variant that takes a null entry for false. *)
not_entry_two_valued(a) == IF a = "true" THEN "false" ELSE "true"

not_entry(a) ==
    IF a = "null" THEN "null" ELSE IF a = "true" THEN "false" ELSE "true"

mask_and(l, r) == [i \in 1..Len(l) |-> and_entry(l[i], r[i])]
(* A variant whose entry is null when either entry is null. *)
mask_or_strict(l, r) ==
    [i \in 1..Len(l) |->
        IF l[i] = "null" \/ r[i] = "null" THEN "null" ELSE or_entry(l[i], r[i])]

mask_or(l, r) == [i \in 1..Len(l) |-> or_entry(l[i], r[i])]
mask_not(m) == [i \in 1..Len(m) |-> not_entry(m[i])]

(* StringChunked::contains_literal: a null slot gives a null entry. *)
contains_literal(col, pat) ==
    [i \in 1..Len(col.data) |->
        IF col.valid[i] THEN bool_entry(contains(col.data[i], pat)) ELSE "null"]

(* str::parse::<f64> on the texts of the model: decimal digits only. *)
Digits == {"1", "5"}
digit_value(c) == IF c = "1" THEN 1 ELSE 5

RECURSIVE decimal_value(_)
decimal_value(v) ==
    IF v = <<>> THEN 0
    ELSE 10 * decimal_value(SubSeq(v, 1, Len(v) - 1)) + digit_value(v[Len(v)])

parses_as_f64(v) == v # <<>> /\ \A i \in 1..Len(v) : v[i] \in Digits

(* The first UTF-8 byte of a character: str comparison is bytewise. *)
char_code(c) ==
    CASE c = " " -> 32
      [] c = "1" -> 49
      [] c = "5" -> 53
      [] c = "x" -> 120
      [] c = "y" -> 121
      [] c = DOTLESS_I -> 196
      [] c = N_APOS -> 197
      [] c = MOD_APOS -> 202
      [] OTHER -> 63

RECURSIVE str_less(_, _)
str_less(a, b) ==
    IF b = <<>> THEN FALSE
    ELSE IF a = <<>> THEN TRUE
    ELSE IF Head(a) # Head(b) THEN char_code(Head(a)) < char_code(Head(b))
    ELSE str_less(Tail(a), Tail(b))

(* The closure each ordering operator passes: a op b. *)
compare(op, lt, eq) ==
    CASE op = "Equal" -> eq
      [] op = "NotEqual" -> ~eq
      [] op = "GreaterThan" -> ~lt /\ ~eq
      [] op = "LessThan" -> lt
      [] op = "GreaterOrEqual" -> ~lt
      [] op = "LessOrEqual" -> lt \/ eq

NumericDtypes == {"Int64", "Int32", "Float64", "Float32"}

(* FilterExpr::numeric_comparison *)
numeric_comparison(col, value, op) ==
    IF col.dtype \in NumericDtypes
    THEN Mask([i \in 1..Len(col.data) |->
                 IF col.valid[i]
                 THEN bool_entry(compare(op, col.data[i] < value, col.data[i] = value))
                 ELSE "null"])
    ELSE Err("TypeMismatch")

(* FilterExpr::string_comparison *)
string_comparison(str_col, value, op) ==
    Mask([i \in 1..Len(str_col.data) |->
            IF str_col.valid[i]
            THEN bool_entry(compare(op, str_less(str_col.data[i], value),
                                    str_col.data[i] = value))
            ELSE "null"])

(* StringChunked::equal and not_equal with a scalar: a null slot gives a   *)
(* null entry.                                                             *)
str_equal(str_col, value) ==
    [i \in 1..Len(str_col.data) |->
        IF str_col.valid[i] THEN bool_entry(str_col.data[i] = value) ELSE "null"]

str_not_equal(str_col, value) ==
    [i \in 1..Len(str_col.data) |->
        IF str_col.valid[i] THEN bool_entry(str_col.data[i] # value) ELSE "null"]

(* A variant that searches the first textual column only. *)
evaluate_global_search_first_only(t, pat) ==
    LET textual == {c \in 1..Len(t) : is_str(t[c])}
    IN  IF textual = {} THEN Err("NoSearchableColumns")
        ELSE Mask(contains_literal(t[min_of(textual)], pat))

(* FilterExpr::evaluate_global_search *)
evaluate_global_search(t, pat) ==
    LET RECURSIVE fold(_, _)
        fold(c, mask) ==
            IF c > Len(t) THEN mask
            ELSE IF is_str(t[c])
            THEN fold(c + 1,
                      IF mask.tag = "None" THEN Mask(contains_literal(t[c], pat))
                      ELSE Mask(mask_or(mask.mask, contains_literal(t[c], pat))))
            ELSE fold(c + 1, mask)
        mask == fold(1, None)
    IN  IF mask.tag = "None" THEN Err("NoSearchableColumns") ELSE mask

(* A variant that checks the operator's types before it looks the column up. *)
evaluate_comparison_late_lookup(t, name, op, value) ==
    IF op \in {"GreaterThan", "LessThan", "GreaterOrEqual", "LessOrEqual"}
       /\ ~parses_as_f64(value) /\ (~has_column(t, name) \/ ~is_str(column(t, name)))
    THEN Err("TypeMismatch")
    ELSE IF ~has_column(t, name) THEN Err("ColumnNotFound")
    ELSE LET col == column(t, name)
         IN  IF op = "Contains"
             THEN IF is_str(col) THEN Mask(contains_literal(col, value))
                  ELSE Err("TypeMismatch")
             ELSE IF op \in {"Equal", "NotEqual"}
             THEN IF is_str(col)
                  THEN Mask(IF op = "Equal" THEN str_equal(col, value)
                            ELSE str_not_equal(col, value))
                  ELSE IF parses_as_f64(value)
                  THEN numeric_comparison(col, decimal_value(value), op)
                  ELSE Err("CannotParseValue")
             ELSE IF parses_as_f64(value)
                  THEN numeric_comparison(col, decimal_value(value), op)
                  ELSE string_comparison(col, value, op)

(* A variant whose ordering operators compare a textual column as text first. *)
evaluate_comparison_string_first(t, name, op, value) ==
    IF ~has_column(t, name) THEN Err("ColumnNotFound")
    ELSE LET col == column(t, name)
         IN  IF op = "Contains"
             THEN IF is_str(col) THEN Mask(contains_literal(col, value))
                  ELSE Err("TypeMismatch")
             ELSE IF op \in {"Equal", "NotEqual"}
             THEN IF is_str(col)
                  THEN Mask(IF op = "Equal" THEN str_equal(col, value)
                            ELSE str_not_equal(col, value))
                  ELSE IF parses_as_f64(value)
                  THEN numeric_comparison(col, decimal_value(value), op)
                  ELSE Err("CannotParseValue")
             ELSE IF is_str(col) THEN string_comparison(col, value, op)
                  ELSE IF parses_as_f64(value)
                  THEN numeric_comparison(col, decimal_value(value), op)
                  ELSE Err("TypeMismatch")

(* A variant whose = and != try the value as a number first. *)
evaluate_comparison_numeric_first(t, name, op, value) ==
    IF ~has_column(t, name) THEN Err("ColumnNotFound")
    ELSE LET col == column(t, name)
         IN  IF op = "Contains"
             THEN IF is_str(col) THEN Mask(contains_literal(col, value))
                  ELSE Err("TypeMismatch")
             ELSE IF op \in {"Equal", "NotEqual"}
             THEN IF parses_as_f64(value)
                  THEN numeric_comparison(col, decimal_value(value), op)
                  ELSE IF is_str(col)
                  THEN Mask(IF op = "Equal" THEN str_equal(col, value)
                            ELSE str_not_equal(col, value))
                  ELSE Err("CannotParseValue")
             ELSE IF parses_as_f64(value)
                  THEN numeric_comparison(col, decimal_value(value), op)
                  ELSE IF is_str(col) THEN string_comparison(col, value, op)
                  ELSE Err("TypeMismatch")

(* A variant whose Contains selects no row of a column that is not textual. *)
evaluate_comparison_contains_lenient(t, name, op, value) ==
    IF ~has_column(t, name) THEN Err("ColumnNotFound")
    ELSE LET col == column(t, name)
         IN  IF op = "Contains"
             THEN IF is_str(col) THEN Mask(contains_literal(col, value))
                  ELSE Mask([i \in 1..Len(col.data) |-> "false"])
             ELSE IF op \in {"Equal", "NotEqual"}
             THEN IF is_str(col)
                  THEN Mask(IF op = "Equal" THEN str_equal(col, value)
                            ELSE str_not_equal(col, value))
                  ELSE IF parses_as_f64(value)
                  THEN numeric_comparison(col, decimal_value(value), op)
                  ELSE Err("CannotParseValue")
             ELSE IF parses_as_f64(value)
                  THEN numeric_comparison(col, decimal_value(value), op)
                  ELSE IF is_str(col) THEN string_comparison(col, value, op)
                  ELSE Err("TypeMismatch")

(* FilterExpr::evaluate_comparison *)
evaluate_comparison(t, name, op, value) ==
    IF ~has_column(t, name) THEN Err("ColumnNotFound")
    ELSE LET col == column(t, name)
         IN  IF op = "Contains"
             THEN IF is_str(col) THEN Mask(contains_literal(col, value))
                  ELSE Err("TypeMismatch")
             ELSE IF op \in {"Equal", "NotEqual"}
             THEN IF is_str(col)
                  THEN Mask(IF op = "Equal" THEN str_equal(col, value)
                            ELSE str_not_equal(col, value))
                  ELSE IF parses_as_f64(value)
                  THEN numeric_comparison(col, decimal_value(value), op)
                  ELSE Err("CannotParseValue")
             ELSE IF parses_as_f64(value)
                  THEN numeric_comparison(col, decimal_value(value), op)
                  ELSE IF is_str(col) THEN string_comparison(col, value, op)
                  ELSE Err("TypeMismatch")

RECURSIVE evaluate(_, _)

(* A variant that evaluates the right operand of And and Or first. *)
evaluate_right_first(expr, t) ==
    CASE expr.tag = "Comparison" ->
            IF expr.column = STAR
            THEN evaluate_global_search(t, expr.value)
            ELSE evaluate_comparison(t, expr.column, expr.op, expr.value)
      [] expr.tag = "And" ->
            LET right_mask == evaluate(expr.right, t)
            IN  IF is_failure(right_mask) THEN right_mask
                ELSE LET left_mask == evaluate(expr.left, t)
                     IN  IF is_failure(left_mask) THEN left_mask
                         ELSE Mask(mask_and(left_mask.mask, right_mask.mask))
      [] expr.tag = "Or" ->
            LET right_mask == evaluate(expr.right, t)
            IN  IF is_failure(right_mask) THEN right_mask
                ELSE LET left_mask == evaluate(expr.left, t)
                     IN  IF is_failure(left_mask) THEN left_mask
                         ELSE Mask(mask_or(left_mask.mask, right_mask.mask))
      [] expr.tag = "Not" ->
            LET mask == evaluate(expr.inner, t)
            IN  IF is_failure(mask) THEN mask ELSE Mask(mask_not(mask.mask))

(* A variant whose Or keeps the left mask when the right operand fails. *)
evaluate_lenient_or(expr, t) ==
    CASE expr.tag = "Comparison" ->
            IF expr.column = STAR
            THEN evaluate_global_search(t, expr.value)
            ELSE evaluate_comparison(t, expr.column, expr.op, expr.value)
      [] expr.tag = "And" ->
            LET left_mask == evaluate(expr.left, t)
            IN  IF is_failure(left_mask) THEN left_mask
                ELSE LET right_mask == evaluate(expr.right, t)
                     IN  IF is_failure(right_mask) THEN right_mask
                         ELSE Mask(mask_and(left_mask.mask, right_mask.mask))
      [] expr.tag = "Or" ->
            LET left_mask == evaluate(expr.left, t)
            IN  IF is_failure(left_mask) THEN left_mask
                ELSE LET right_mask == evaluate(expr.right, t)
                     IN  IF is_failure(right_mask) THEN left_mask
                         ELSE Mask(mask_or(left_mask.mask, right_mask.mask))
      [] expr.tag = "Not" ->
            LET mask == evaluate(expr.inner, t)
            IN  IF is_failure(mask) THEN mask ELSE Mask(mask_not(mask.mask))

(* A variant that takes a repeated Not for a single one. *)
evaluate_not_collapsed(expr, t) ==
    CASE expr.tag = "Comparison" ->
            IF expr.column = STAR
            THEN evaluate_global_search(t, expr.value)
            ELSE evaluate_comparison(t, expr.column, expr.op, expr.value)
      [] expr.tag = "And" ->
            LET left_mask == evaluate(expr.left, t)
            IN  IF is_failure(left_mask) THEN left_mask
                ELSE LET right_mask == evaluate(expr.right, t)
                     IN  IF is_failure(right_mask) THEN right_mask
                         ELSE Mask(mask_and(left_mask.mask, right_mask.mask))
      [] expr.tag = "Or" ->
            LET left_mask == evaluate(expr.left, t)
            IN  IF is_failure(left_mask) THEN left_mask
                ELSE LET right_mask == evaluate(expr.right, t)
                     IN  IF is_failure(right_mask) THEN right_mask
                         ELSE Mask(mask_or(left_mask.mask, right_mask.mask))
      [] expr.tag = "Not" ->
            LET mask == evaluate(IF expr.inner.tag = "Not" THEN expr.inner.inner
                                 ELSE expr.inner, t)
            IN  IF is_failure(mask) THEN mask ELSE Mask(mask_not(mask.mask))

(* FilterExpr::evaluate *)
evaluate(expr, t) ==
    CASE expr.tag = "Comparison" ->
            IF expr.column = STAR
            THEN evaluate_global_search(t, expr.value)
            ELSE evaluate_comparison(t, expr.column, expr.op, expr.value)
      [] expr.tag = "And" ->
            LET left_mask == evaluate(expr.left, t)
            IN  IF is_failure(left_mask) THEN left_mask
                ELSE LET right_mask == evaluate(expr.right, t)
                     IN  IF is_failure(right_mask) THEN right_mask
                         ELSE Mask(mask_and(left_mask.mask, right_mask.mask))
      [] expr.tag = "Or" ->
            LET left_mask == evaluate(expr.left, t)
            IN  IF is_failure(left_mask) THEN left_mask
                ELSE LET right_mask == evaluate(expr.right, t)
                     IN  IF is_failure(right_mask) THEN right_mask
                         ELSE Mask(mask_or(left_mask.mask, right_mask.mask))
      [] expr.tag = "Not" ->
            LET mask == evaluate(expr.inner, t)
            IN  IF is_failure(mask) THEN mask ELSE Mask(mask_not(mask.mask))

(* The rows from i on whose mask entry is in keep, in row order. *)
RECURSIVE kept_rows(_, _, _)
kept_rows(mask, keep, i) ==
    IF i > Len(mask) THEN <<>>
    ELSE (IF mask[i] \in keep THEN <<i>> ELSE <<>>) \o kept_rows(mask, keep, i + 1)

take(t, rows) ==
    [c \in 1..Len(t) |->
        Column(t[c].name, t[c].dtype,
               [j \in 1..Len(rows) |-> t[c].data[rows[j]]],
               [j \in 1..Len(rows) |-> t[c].valid[rows[j]]])]

(* A variant that keeps the rows whose mask entry is null as well. *)
df_filter_keeps_null(t, mask) ==
    take(t, kept_rows(mask, {"true", "null"}, 1))

(* DataFrame::filter: the rows whose mask entry is true. *)
df_filter(t, mask) == take(t, kept_rows(mask, {"true"}, 1))

(* FilterExpr::apply *)
apply(expr, t) ==
    LET mask == evaluate(expr, t)
    IN  IF is_failure(mask) THEN mask ELSE Ok(df_filter(t, mask.mask))

(* A variant without the shortcut for the empty pattern. *)
filter_always_parses(t, pat) ==
    LET expr == parse(pat)
    IN  IF is_failure(expr) THEN expr ELSE apply(expr, t)

(* DataSource::filter *)
filter(t, pat) ==
    IF pat = <<>> THEN Ok(t)
    ELSE LET expr == parse(pat)
         IN  IF is_failure(expr) THEN expr ELSE apply(expr, t)

(***************************************************************************)
(* Input texts.                                                            *)
(***************************************************************************)
RECURSIVE concat(_)
concat(toks) == IF toks = <<>> THEN <<>> ELSE Head(toks) \o concat(Tail(toks))

SeqsUpTo(S, n) == UNION {[1..k -> S] : k \in 0..n}

(* Texts of operands and logical keywords, with the keywords' letters in   *)
(* upper case, in lower case, or in alternating case.                      *)
LogicTokens == { <<"x">>, <<"y">>, <<DOTLESS_I>>, KW_OR, KW_AND, KW_NOT }

lower_char(c) ==
    CASE c = "A" -> "a"
      [] c = "N" -> "n"
      [] c = "D" -> "d"
      [] c = "O" -> "o"
      [] c = "R" -> "r"
      [] c = "T" -> "t"
      [] OTHER -> c

recase(s, mode) ==
    [i \in 1..Len(s) |->
        IF mode = "lower" \/ (mode = "mixed" /\ i % 2 = 0)
        THEN lower_char(s[i]) ELSE s[i]]

CaseModes == {"upper", "lower", "mixed"}

LogicTexts ==
    {recase(concat(t), m) : t \in SeqsUpTo(LogicTokens, MaxToks), m \in CaseModes}

CmpChars == {"x", " ", ">", "<", "=", "!", ":", "\"", "'", "*"}

CmpTexts == SeqsUpTo(CmpChars, MaxCmpLen)

NoTable == <<>>
Idle == [op |-> "idle"]
NoExpr == [tag |-> "None"]

(* No call is followed step by step. *)
NoCalls == stack = <<>> /\ trace = <<>>

(* No application is running: the engine is called directly. *)
NoApp ==
    /\ filter_pattern = <<>>
    /\ filter_cursor = 0
    /\ filter_mode = FALSE
    /\ filtered_df = NoTable
    /\ scroll_offset = 0
    /\ error_message = None

(***************************************************************************)
(* Input tables: a shape is a schema and the rows a table of it may hold.  *)
(***************************************************************************)
Slot(v) == [valid |-> TRUE, data |-> v]
NullStr == [valid |-> FALSE, data |-> <<>>]
NullInt == [valid |-> FALSE, data |-> 0]
NullBool == [valid |-> FALSE, data |-> FALSE]

Field(name, dtype) == [name |-> name, dtype |-> dtype]

TableShapes ==
    { [schema |-> <<Field(<<"s">>, "String"), Field(<<"n">>, "Int64")>>,
       pool |-> { <<Slot(<<"y", "x">>), Slot(1)>>, <<Slot(<<"y">>), NullInt>>,
                  <<NullStr, Slot(5)>> }],
      [schema |-> <<Field(<<"s">>, "String"), Field(<<"t">>, "String")>>,
       pool |-> { <<Slot(<<"x">>), Slot(<<"y">>)>>, <<Slot(<<"y">>), NullStr>>,
                  <<NullStr, Slot(<<"y", "x">>)>> }],
      [schema |-> <<Field(<<"n">>, "Int64"), Field(<<"b">>, "Boolean")>>,
       pool |-> { <<Slot(1), Slot(TRUE)>>, <<NullInt, NullBool>> }],
      [schema |-> <<>>, pool |-> {}] }

table_of(schema, rows) ==
    [c \in 1..Len(schema) |->
        Column(schema[c].name, schema[c].dtype,
               [i \in 1..Len(rows) |-> rows[i][c].data],
               [i \in 1..Len(rows) |-> rows[i][c].valid])]

Tables ==
    UNION {{table_of(sh.schema, rows) : rows \in SeqsUpTo(sh.pool, MaxRows)} :
           sh \in TableShapes}

(* The tables above and those with an unsigned and a Boolean column. *)
TypedTables ==
    Tables \cup
    {table_of(<<Field(<<"n">>, "UInt32"), Field(<<"s">>, "Boolean")>>, rows) :
        rows \in SeqsUpTo({ <<Slot(1), Slot(TRUE)>>, <<NullInt, NullBool>> }, MaxRows)}

(***************************************************************************)
(* Input texts of the facade: blank texts, every name with every operator  *)
(* and a textual or numeric value, operator-free texts, and leaves joined  *)
(* by the logical keywords.                                                *)
(***************************************************************************)
BlankTexts == {<<>>, <<" ">>, <<" ", " ">>}

NameTexts == {<<"s">>, <<"n">>, <<"q">>, STAR}
ValueTexts == {<<"x">>, <<"1">>}

LeafTexts ==
    {n \o operators[k].tok \o v :
        n \in NameTexts, k \in 1..Len(operators), v \in ValueTexts}

SearchTexts == {<<"x">>, <<"y">>, <<"1">>}

(* A comparison written with blanks and a quoted value. *)
SpacedTexts == { <<"s", " ", "!", "=", " ", "'", "y", "'">> }

(* Ordering comparisons of a column with the text "y". *)
OrderTexts ==
    {<<"s">> \o operators[k].tok \o <<"y">> : k \in {1, 2, 5, 6}}

CoreLeaves == { <<"s", ":", "x">>, <<"n", ">", "1">>, <<"q", "=", "1">> }

RECURSIVE JoinedTexts(_)
JoinedTexts(n) ==
    IF n = 1 THEN CoreLeaves
    ELSE {l \o kw \o r : l \in CoreLeaves, kw \in {KW_AND, KW_OR},
                         r \in JoinedTexts(n - 1)}

NotTexts == {KW_NOT \o l : l \in CoreLeaves \cup SpacedTexts}

FilterTexts ==
    BlankTexts \cup LeafTexts \cup SearchTexts \cup SpacedTexts \cup NotTexts
        \cup UNION {JoinedTexts(n) : n \in 1..MaxLeaves}

(* A direct call of the parser on the text. *)
DoParse ==
    /\ out = Idle
    /\ out' = [op |-> "parse", res |-> parse(pattern)]
    /\ UNCHANGED <<call_vars, pattern, df, fexpr, app_vars>>

NextParse == DoParse

(* The parser on texts made of operands and logical keywords. *)
InitParse ==
    /\ pattern \in LogicTexts
    /\ df = NoTable
    /\ out = Idle
    /\ NoCalls
    /\ fexpr = NoExpr
    /\ NoApp

SpecParse == InitParse /\ [][NextParse]_vars

(* The parser on texts made of operand, operator and quote characters. *)
InitCmp ==
    /\ pattern \in CmpTexts
    /\ df = NoTable
    /\ out = Idle
    /\ NoCalls
    /\ fexpr = NoExpr
    /\ NoApp

SpecCmp == InitCmp /\ [][NextParse]_vars

(* A call of the facade on the table with the text. *)
DoFilter ==
    /\ out = Idle
    /\ fexpr = NoExpr
    /\ out' = [op |-> "filter", res |-> filter(df, pattern)]
    /\ UNCHANGED <<call_vars, pattern, df, fexpr, app_vars>>

Init ==
    /\ pattern \in FilterTexts
    /\ df \in Tables
    /\ out = Idle
    /\ NoCalls
    /\ fexpr = NoExpr
    /\ NoApp

Next == DoFilter

Spec == Init /\ [][Next]_vars

(* A call of the facade with a comparison of a named column, on columns of *)
(* every type.                                                             *)
InitCompare ==
    /\ pattern \in LeafTexts \cup OrderTexts
    /\ df \in TypedTables
    /\ out = Idle
    /\ NoCalls
    /\ fexpr = NoExpr
    /\ NoApp

SpecCompare == InitCompare /\ [][Next]_vars

(***************************************************************************)
(* Expression trees handed to FilterExpr::apply, by their number of And,   *)
(* Or and Not nodes, and the tables they are applied to.                   *)
(***************************************************************************)
ApplyLeaves ==
    { Comparison(<<"s">>, "Contains", <<"x">>),
      Comparison(<<"n">>, "GreaterThan", <<"1">>) }

RECURSIVE ExprsOf(_)
ExprsOf(k) ==
    IF k = 0 THEN ApplyLeaves
    ELSE {Not(e) : e \in ExprsOf(k - 1)}
         \cup UNION {{And(l, r) : l \in ExprsOf(i), r \in ExprsOf(k - 1 - i)} :
                     i \in 0..(k - 1)}
         \cup UNION {{Or(l, r) : l \in ExprsOf(i), r \in ExprsOf(k - 1 - i)} :
                     i \in 0..(k - 1)}

Exprs == UNION {ExprsOf(k) : k \in 0..MaxOps}

(* Every pairing of a text with x, a text without x or no text with a      *)
(* number above 1, the number 1 or no number.                              *)
FullTable ==
    table_of(<<Field(<<"s">>, "String"), Field(<<"n">>, "Int64")>>,
             << <<Slot(<<"x">>), Slot(5)>>, <<Slot(<<"x">>), Slot(1)>>,
                <<Slot(<<"x">>), NullInt>>,
                <<Slot(<<"y">>), Slot(5)>>, <<Slot(<<"y">>), Slot(1)>>,
                <<Slot(<<"y">>), NullInt>>,
                <<NullStr, Slot(5)>>, <<NullStr, Slot(1)>>, <<NullStr, NullInt>> >>)

(* A table without null slots. *)
PlainTable ==
    table_of(<<Field(<<"s">>, "String"), Field(<<"n">>, "Int64")>>,
             << <<Slot(<<"x">>), Slot(5)>>, <<Slot(<<"y">>), Slot(1)>>,
                <<Slot(<<"y", "x">>), Slot(1)>> >>)

ApplyTables ==
    { FullTable, PlainTable,
      table_of(<<Field(<<"s">>, "String"), Field(<<"n">>, "Boolean")>>,
               << <<Slot(<<"x">>), Slot(TRUE)>>, <<NullStr, NullBool>> >>),
      table_of(<<Field(<<"n">>, "Int64")>>, << <<Slot(5)>>, <<NullInt>> >>),
      table_of(<<Field(<<"s">>, "Int64")>>, << <<Slot(1)>> >>),
      table_of(<<Field(<<"n">>, "String")>>, << <<Slot(<<"x">>)>>, <<NullStr>> >>),
      table_of(<<>>, <<>>) }

(* Texts of two comparisons joined by a keyword; "n>" lacks its value. *)
ErrLeafTexts == { <<"s", ":", "x">>, <<"n", ">", "1">>, <<"n", ">">> }

ErrTexts ==
    {l \o kw \o r : l \in ErrLeafTexts, kw \in {KW_AND, KW_OR}, r \in ErrLeafTexts}

(* A direct call of FilterExpr::apply on a tree. *)
DoApply ==
    /\ out = Idle
    /\ fexpr # NoExpr
    /\ out' = [op |-> "apply", res |-> apply(fexpr, df)]
    /\ UNCHANGED <<call_vars, pattern, df, fexpr, app_vars>>

(* Either a tree is applied or a text is filtered with. *)
InitApply ==
    /\ \/ fexpr \in Exprs /\ pattern = <<>>
       \/ fexpr = NoExpr /\ pattern \in ErrTexts
    /\ df \in ApplyTables
    /\ out = Idle
    /\ NoCalls
    /\ NoApp

NextApply == DoApply \/ DoFilter

SpecApply == InitApply /\ [][NextApply]_vars

(***************************************************************************)
(* The application: App (src/src/app.rs) driven by the keys of             *)
(* handle_key_event (src/src/main.rs).  filter_cursor is a byte offset     *)
(* into filter_pattern; String::insert and String::remove abort when it is *)
(* no character boundary.                                                  *)
(***************************************************************************)
page_size == 20

saturating_sub(a, b) == IF a > b THEN a - b ELSE 0

min(a, b) == IF a < b THEN a ELSE b

Aborted == [op |-> "abort"]

Running == out = Idle

(* render_footer can put the cursor mark into a copy of the text: in       *)
(* filter mode String::insert is called when the cursor is within the      *)
(* length, and aborts off a character boundary.                            *)
can_draw(mode, text, cursor) ==
    ~mode \/ cursor > byte_len(text) \/ is_char_boundary(text, cursor)

(* The loop of run_app has drawn the state and reads the next key. *)
Drawn == Running /\ can_draw(filter_mode, filter_pattern, filter_cursor)

(* The characters typed into the filter input. *)
AppChars == {"x", "y", ":"}

(* Twenty-one rows with the text "x" and a last one with "y". *)
LongTable ==
    table_of(<<Field(<<"s">>, "String")>>,
             [i \in 1..(page_size + 2) |->
                 <<Slot(IF i < page_size + 2 THEN <<"x">> ELSE <<"y">>)>>])

ShortTable ==
    table_of(<<Field(<<"s">>, "String")>>,
             << <<Slot(<<"x">>)>>, <<Slot(<<"y">>)>>, <<NullStr>> >>)

AppTables == {LongTable, ShortTable}

(* String::remove can take the character at byte idx away. *)
can_remove(s, idx) == idx < byte_len(s) /\ is_char_boundary(s, idx)

(* String::remove *)
string_remove(s, idx) ==
    SubSeq(s, 1, char_index(s, idx)) \o SubSeq(s, char_index(s, idx) + 2, Len(s))

(* String::insert *)
string_insert(s, idx, c) == slice_to(s, idx) \o <<c>> \o slice_from(s, idx)

(* A variant that goes back to the first row when the filter fails. *)
apply_filter_arms_reset_scroll(res, shown, offset) ==
    IF res.tag = "Ok"
    THEN [filtered_df |-> res.table, scroll_offset |-> 0,
          error_message |-> None, aborted |-> FALSE]
    ELSE IF res.tag = "Err"
    THEN [filtered_df |-> shown, scroll_offset |-> 0,
          error_message |-> res, aborted |-> FALSE]
    ELSE [filtered_df |-> shown, scroll_offset |-> offset,
          error_message |-> None, aborted |-> TRUE]

(* A variant that keeps the row offset when the filter succeeds. *)
apply_filter_arms_keep_scroll(res, shown, offset) ==
    IF res.tag = "Ok"
    THEN [filtered_df |-> res.table, scroll_offset |-> offset,
          error_message |-> None, aborted |-> FALSE]
    ELSE IF res.tag = "Err"
    THEN [filtered_df |-> shown, scroll_offset |-> offset,
          error_message |-> res, aborted |-> FALSE]
    ELSE [filtered_df |-> shown, scroll_offset |-> offset,
          error_message |-> None, aborted |-> TRUE]

(* The arms of the match in App::apply_filter on the result res of the     *)
(* facade, while the table shown is displayed from row offset: the fields  *)
(* they leave behind.                                                      *)
apply_filter_arms(res, shown, offset) ==
    IF res.tag = "Ok"
    THEN [filtered_df |-> res.table, scroll_offset |-> 0,
          error_message |-> None, aborted |-> FALSE]
    ELSE IF res.tag = "Err"
    THEN [filtered_df |-> shown, scroll_offset |-> offset,
          error_message |-> res, aborted |-> FALSE]
    ELSE [filtered_df |-> shown, scroll_offset |-> offset,
          error_message |-> None, aborted |-> TRUE]

(* App::apply_filter on the table t with the text pat. *)
apply_filter(t, pat, shown, offset) ==
    apply_filter_arms(filter(t, pat), shown, offset)

(* App::new *)
InitApp ==
    /\ df \in AppTables
    /\ filtered_df = df
    /\ scroll_offset = 0
    /\ filter_pattern = <<>>
    /\ filter_cursor = 0
    /\ filter_mode = FALSE
    /\ error_message = None
    /\ pattern = <<>>
    /\ fexpr = NoExpr
    /\ out = Idle
    /\ NoCalls

(* '/': App::enter_filter_mode *)
KeySlash ==
    /\ Drawn /\ ~filter_mode
    /\ filter_mode' = TRUE
    /\ filter_cursor' = byte_len(filter_pattern)
    /\ error_message' = None
    /\ UNCHANGED <<call_vars, pattern, df, out, fexpr, filter_pattern, filtered_df, scroll_offset>>

(* A character key in filter mode: App::push_filter_char *)
KeyChar ==
    /\ Drawn /\ filter_mode
    /\ Len(filter_pattern) < MaxPatLen
    /\ \E c \in AppChars :
          IF is_char_boundary(filter_pattern, filter_cursor)
          THEN /\ filter_pattern' = string_insert(filter_pattern, filter_cursor, c)
               /\ filter_cursor' = filter_cursor + 1
               /\ out' = out
          ELSE /\ out' = Aborted
               /\ UNCHANGED <<filter_pattern, filter_cursor>>
    /\ UNCHANGED <<call_vars, pattern, df, fexpr, filter_mode, filtered_df, scroll_offset,
                   error_message>>

(* Backspace: App::pop_filter_char *)
KeyBackspace ==
    /\ Drawn /\ filter_mode
    /\ IF filter_cursor > 0
       THEN IF can_remove(filter_pattern, filter_cursor - 1)
            THEN /\ filter_cursor' = filter_cursor - 1
                 /\ filter_pattern' = string_remove(filter_pattern, filter_cursor - 1)
                 /\ out' = out
            ELSE /\ out' = Aborted
                 /\ filter_cursor' = filter_cursor - 1
                 /\ UNCHANGED filter_pattern
       ELSE UNCHANGED <<filter_pattern, filter_cursor, out>>
    /\ UNCHANGED <<call_vars, pattern, df, fexpr, filter_mode, filtered_df, scroll_offset,
                   error_message>>

(* Delete: App::delete_filter_char *)
KeyDelete ==
    /\ Drawn /\ filter_mode
    /\ IF filter_cursor < byte_len(filter_pattern)
       THEN IF can_remove(filter_pattern, filter_cursor)
            THEN /\ filter_pattern' = string_remove(filter_pattern, filter_cursor)
                 /\ out' = out
            ELSE /\ out' = Aborted
                 /\ UNCHANGED filter_pattern
       ELSE UNCHANGED <<filter_pattern, out>>
    /\ UNCHANGED <<call_vars, pattern, df, fexpr, filter_cursor, filter_mode, filtered_df,
                   scroll_offset, error_message>>

(* Left in filter mode: App::filter_cursor_left *)
KeyLeft ==
    /\ Drawn /\ filter_mode
    /\ filter_cursor' = IF filter_cursor > 0 THEN filter_cursor - 1 ELSE filter_cursor
    /\ UNCHANGED <<call_vars, pattern, df, out, fexpr, filter_pattern, filter_mode, filtered_df,
                   scroll_offset, error_message>>

(* Right in filter mode: App::filter_cursor_right *)
KeyRight ==
    /\ Drawn /\ filter_mode
    /\ filter_cursor' = IF filter_cursor < byte_len(filter_pattern)
                        THEN filter_cursor + 1 ELSE filter_cursor
    /\ UNCHANGED <<call_vars, pattern, df, out, fexpr, filter_pattern, filter_mode, filtered_df,
                   scroll_offset, error_message>>

(* Home in filter mode: App::filter_cursor_home *)
KeyHome ==
    /\ Drawn /\ filter_mode
    /\ filter_cursor' = 0
    /\ UNCHANGED <<call_vars, pattern, df, out, fexpr, filter_pattern, filter_mode, filtered_df,
                   scroll_offset, error_message>>

(* End in filter mode: App::filter_cursor_end *)
KeyEnd ==
    /\ Drawn /\ filter_mode
    /\ filter_cursor' = byte_len(filter_pattern)
    /\ UNCHANGED <<call_vars, pattern, df, out, fexpr, filter_pattern, filter_mode, filtered_df,
                   scroll_offset, error_message>>

(* Enter in filter mode: App::apply_filter, then App::exit_filter_mode *)
KeyEnter ==
    /\ Drawn /\ filter_mode
    /\ \E after \in {apply_filter(df, filter_pattern, filtered_df, scroll_offset)} :
           IF after.aborted
           THEN /\ out' = Aborted
                /\ UNCHANGED <<filtered_df, scroll_offset, error_message, filter_mode>>
           ELSE /\ filtered_df' = after.filtered_df
                /\ scroll_offset' = after.scroll_offset
                /\ error_message' = after.error_message
                /\ filter_mode' = FALSE
                /\ out' = out
    /\ UNCHANGED <<call_vars, pattern, df, fexpr, filter_pattern, filter_cursor>>

(* Esc in filter mode: App::exit_filter_mode *)
KeyEscInput ==
    /\ Drawn /\ filter_mode
    /\ filter_mode' = FALSE
    /\ UNCHANGED <<call_vars, pattern, df, out, fexpr, filter_pattern, filter_cursor, filtered_df,
                   scroll_offset, error_message>>

(* Esc in normal mode: App::clear_filter *)
KeyEsc ==
    /\ Drawn /\ ~filter_mode
    /\ filter_pattern' = <<>>
    /\ filter_cursor' = 0
    /\ \E after \in {apply_filter(df, <<>>, filtered_df, scroll_offset)} :
           IF after.aborted
           THEN /\ out' = Aborted
                /\ UNCHANGED <<filtered_df, scroll_offset, error_message>>
           ELSE /\ filtered_df' = after.filtered_df
                /\ scroll_offset' = after.scroll_offset
                /\ error_message' = after.error_message
                /\ out' = out
    /\ UNCHANGED <<call_vars, pattern, df, fexpr, filter_mode>>

(* PageDown: App::scroll_down *)
KeyPageDown ==
    /\ Drawn /\ ~filter_mode
    /\ scroll_offset' = min(scroll_offset + page_size,
                            saturating_sub(height(filtered_df), page_size))
    /\ UNCHANGED <<call_vars, pattern, df, out, fexpr, filter_pattern, filter_cursor, filter_mode,
                   filtered_df, error_message>>

(* PageUp: App::scroll_up *)
KeyPageUp ==
    /\ Drawn /\ ~filter_mode
    /\ scroll_offset' = saturating_sub(scroll_offset, page_size)
    /\ UNCHANGED <<call_vars, pattern, df, out, fexpr, filter_pattern, filter_cursor, filter_mode,
                   filtered_df, error_message>>

(* Down or j: App::scroll_down_one *)
KeyDown ==
    /\ Drawn /\ ~filter_mode
    /\ scroll_offset' = min(scroll_offset + 1,
                            saturating_sub(height(filtered_df), page_size))
    /\ UNCHANGED <<call_vars, pattern, df, out, fexpr, filter_pattern, filter_cursor, filter_mode,
                   filtered_df, error_message>>

(* Up or k: App::scroll_up_one *)
KeyUp ==
    /\ Drawn /\ ~filter_mode
    /\ scroll_offset' = saturating_sub(scroll_offset, 1)
    /\ UNCHANGED <<call_vars, pattern, df, out, fexpr, filter_pattern, filter_cursor, filter_mode,
                   filtered_df, error_message>>

(* Home or g in normal mode: App::scroll_to_top *)
KeyTop ==
    /\ Drawn /\ ~filter_mode
    /\ scroll_offset' = 0
    /\ UNCHANGED <<call_vars, pattern, df, out, fexpr, filter_pattern, filter_cursor, filter_mode,
                   filtered_df, error_message>>

(* End or G in normal mode: App::scroll_to_bottom *)
KeyBottom ==
    /\ Drawn /\ ~filter_mode
    /\ scroll_offset' = saturating_sub(height(filtered_df), page_size)
    /\ UNCHANGED <<call_vars, pattern, df, out, fexpr, filter_pattern, filter_cursor, filter_mode,
                   filtered_df, error_message>>

(* handle_key_event, outside the column selection *)
NextApp ==
    \/ KeySlash \/ KeyChar \/ KeyBackspace \/ KeyDelete
    \/ KeyLeft \/ KeyRight \/ KeyHome \/ KeyEnd
    \/ KeyEnter \/ KeyEscInput \/ KeyEsc
    \/ KeyPageDown \/ KeyPageUp \/ KeyDown \/ KeyUp \/ KeyTop \/ KeyBottom

SpecApp == InitApp /\ [][NextApp]_vars

(***************************************************************************)
(* The filter input with a character of two bytes among the keys.          *)
(***************************************************************************)
(* The key of U+0131 in filter mode: App::push_filter_char *)
KeyWideChar ==
    /\ Drawn /\ filter_mode
    /\ Len(filter_pattern) < MaxPatLen
    /\ IF is_char_boundary(filter_pattern, filter_cursor)
       THEN /\ filter_pattern' = string_insert(filter_pattern, filter_cursor, DOTLESS_I)
            /\ filter_cursor' = filter_cursor + 1
            /\ out' = out
       ELSE /\ out' = Aborted
            /\ UNCHANGED <<filter_pattern, filter_cursor>>
    /\ UNCHANGED <<call_vars, pattern, df, fexpr, filter_mode, filtered_df, scroll_offset,
                   error_message>>

(* terminal.draw at the head of the loop, when the cursor mark cannot be   *)
(* inserted: the program aborts.                                           *)
Render ==
    /\ Running /\ ~can_draw(filter_mode, filter_pattern, filter_cursor)
    /\ out' = Aborted
    /\ UNCHANGED <<call_vars, pattern, df, fexpr, app_vars>>

InitInput == InitApp /\ df = ShortTable

NextInput == NextApp \/ KeyWideChar \/ Render

SpecInput == InitInput /\ [][NextInput]_vars

(***************************************************************************)
(* The calls of one DataSource::filter, followed one by one: every call of *)
(* FilterExpr::parse and of FilterExpr::evaluate is a step.  A failure is  *)
(* passed up by ? through every pending caller, so it ends the whole call. *)
(***************************************************************************)
MaxCallToks == 4

(* One call of parse up to its recursive calls: the texts it passes to     *)
(* them, or how it ends without making any.                                *)
parse_calls(text) ==
    LET input == trim(text)
        input_upper == to_uppercase(input)
        o == find(input_upper, KW_OR)
        a == find(input_upper, KW_AND)
    IN  IF input = <<>> THEN [tag |-> "Err", calls |-> <<>>]
        ELSE IF o # -1
        THEN IF ~is_char_boundary(input, o) \/ ~is_char_boundary(input, o + 4)
             THEN [tag |-> "Panic", calls |-> <<>>]
             ELSE [tag |-> "Calls", calls |-> <<trim(slice_to(input, o)), trim(slice_from(input, o + 4))>>]
        ELSE IF a # -1
        THEN IF ~is_char_boundary(input, a) \/ ~is_char_boundary(input, a + 5)
             THEN [tag |-> "Panic", calls |-> <<>>]
             ELSE [tag |-> "Calls", calls |-> <<trim(slice_to(input, a)), trim(slice_from(input, a + 5))>>]
        ELSE IF starts_with(input_upper, KW_NOT)
        THEN IF ~is_char_boundary(input, 4) THEN [tag |-> "Panic", calls |-> <<>>]
             ELSE [tag |-> "Calls", calls |-> <<trim(slice_from(input, 4))>>]
        ELSE IF is_failure(parse_comparison(input)) THEN [tag |-> "Err", calls |-> <<>>]
        ELSE [tag |-> "Calls", calls |-> <<>>]

(* A variant in which And evaluates its left operand a second time in      *)
(* place of the right one.                                                 *)
evaluate_calls_left_twice(expr, t) ==
    CASE expr.tag = "Comparison" ->
            IF is_failure(evaluate(expr, t)) THEN [tag |-> "Err", calls |-> <<>>] ELSE [tag |-> "Calls", calls |-> <<>>]
      [] expr.tag = "And" ->
            [tag |-> "Calls", calls |-> <<[step |-> "left", expr |-> expr.left],
                    [step |-> "left", expr |-> expr.left]>>]
      [] expr.tag = "Or" ->
            [tag |-> "Calls", calls |-> <<[step |-> "left", expr |-> expr.left],
                    [step |-> "right", expr |-> expr.right]>>]
      [] expr.tag = "Not" -> [tag |-> "Calls", calls |-> <<[step |-> "inner", expr |-> expr.inner]>>]

(* One call of evaluate up to its recursive calls: the children it passes  *)
(* to them, or how a comparison ends.                                      *)
evaluate_calls(expr, t) ==
    CASE expr.tag = "Comparison" ->
            IF is_failure(evaluate(expr, t)) THEN [tag |-> "Err", calls |-> <<>>] ELSE [tag |-> "Calls", calls |-> <<>>]
      [] expr.tag = "And" ->
            [tag |-> "Calls", calls |-> <<[step |-> "left", expr |-> expr.left],
                    [step |-> "right", expr |-> expr.right]>>]
      [] expr.tag = "Or" ->
            [tag |-> "Calls", calls |-> <<[step |-> "left", expr |-> expr.left],
                    [step |-> "right", expr |-> expr.right]>>]
      [] expr.tag = "Not" -> [tag |-> "Calls", calls |-> <<[step |-> "inner", expr |-> expr.inner]>>]

(* Pending calls: of parse on a text, made by the call on the text caller  *)
(* (the facade's call has depth 0), and of evaluate on the node at path.   *)
ParseCall(text, caller, depth) ==
    [fn |-> "parse", text |-> text, caller |-> caller, depth |-> depth]
EvaluateCall(expr, path) == [fn |-> "evaluate", expr |-> expr, path |-> path]

InProgress == [op |-> "running"]

Returned == [op |-> "filter", res |-> filter(df, pattern)]

(* DataSource::filter is entered. *)
CallFilter ==
    /\ out = Idle /\ stack = <<>> /\ trace = <<>>
    /\ IF pattern = <<>>
       THEN out' = Returned /\ stack' = stack
       ELSE out' = InProgress /\ stack' = <<ParseCall(pattern, pattern, 0)>>
    /\ UNCHANGED <<trace, pattern, df, fexpr, app_vars>>

(* The innermost pending call of parse runs up to its recursive calls.     *)
(* When the last one has returned, the facade calls apply on the tree.     *)
ParseStep ==
    /\ out = InProgress /\ stack # <<>> /\ Head(stack).fn = "parse"
    /\ \E f \in {Head(stack)} : \E c \in {parse_calls(Head(stack).text)} :
          /\ trace' = Append(trace, f)
          /\ IF c.tag # "Calls"
             THEN stack' = <<>> /\ out' = Returned /\ fexpr' = fexpr
             ELSE \E rest \in {[i \in 1..Len(c.calls) |->
                                  ParseCall(c.calls[i], f.text, f.depth + 1)]
                               \o Tail(stack)} :
                     IF rest # <<>>
                     THEN stack' = rest /\ out' = out /\ fexpr' = fexpr
                     ELSE /\ fexpr' = parse(pattern)
                          /\ stack' = <<EvaluateCall(parse(pattern), <<>>)>>
                          /\ out' = out
    /\ UNCHANGED <<pattern, df, app_vars>>

(* The innermost pending call of evaluate runs up to its recursive calls.  *)
(* When the last one has returned, apply filters the table by the mask.    *)
EvaluateStep ==
    /\ out = InProgress /\ stack # <<>> /\ Head(stack).fn = "evaluate"
    /\ \E f \in {Head(stack)} : \E c \in {evaluate_calls(Head(stack).expr, df)} :
          /\ trace' = Append(trace, f)
          /\ IF c.tag # "Calls"
             THEN stack' = <<>> /\ out' = Returned
             ELSE \E rest \in {[i \in 1..Len(c.calls) |->
                                  EvaluateCall(c.calls[i].expr,
                                               Append(f.path, c.calls[i].step))]
                               \o Tail(stack)} :
                     /\ stack' = rest
                     /\ out' = IF rest = <<>> THEN Returned ELSE out
    /\ UNCHANGED <<pattern, df, fexpr, app_vars>>

(* Texts of operands, two of them characters whose upper case has another  *)
(* length in bytes, and of the logical keywords.                           *)
CallTexts ==
    {concat(t) :
        t \in SeqsUpTo({ <<"x">>, <<DOTLESS_I>>, <<N_APOS>>, KW_OR, KW_AND, KW_NOT },
                       MaxCallToks)}

(* A table with text and one without: a global search fails on the latter. *)
CallTables ==
    {ShortTable, table_of(<<Field(<<"n">>, "Int64")>>, << <<Slot(1)>> >>)}

InitCalls ==
    /\ pattern \in CallTexts
    /\ df \in CallTables
    /\ out = Idle
    /\ NoCalls
    /\ fexpr = NoExpr
    /\ NoApp

NextCalls == CallFilter \/ ParseStep \/ EvaluateStep

(* A call that has been entered keeps running until it returns. *)
SpecCalls == InitCalls /\ [][NextCalls]_vars /\ WF_vars(NextCalls)

(***************************************************************************)
(* What the properties below are stated with.                              *)
(***************************************************************************)
GlobalSearch(v) == Comparison(STAR, "Contains", v)

(* sub spells the keyword kw in some letter case. *)
SpelledAs(sub, kw) ==
    /\ Len(sub) = Len(kw)
    /\ \A j \in 1..Len(kw) : sub[j] = kw[j] \/ sub[j] = lower_char(kw[j])

(* The 0-based character positions where t holds kw in some letter case. *)
KeywordAt(t, kw) ==
    {i \in 0..(Len(t) - Len(kw)) : SpelledAs(SubSeq(t, i + 1, i + Len(kw)), kw)}

HasKeyword(t, kw) == KeywordAt(t, kw) # {}

Before(t, i) == SubSeq(t, 1, i)
After(t, i, n) == SubSeq(t, i + n + 1, Len(t))

(* The positions where the operator token tok occurs in t. *)
TokenAt(t, tok) ==
    {i \in 0..(Len(t) - Len(tok)) : SubSeq(t, i + 1, i + Len(tok)) = tok}

ListedOps(t) == {k \in 1..Len(operators) : TokenAt(t, operators[k].tok) # {}}

(* v without its leading and trailing double quotes, then without its      *)
(* leading and trailing single quotes.                                     *)
Unquoted(v) ==
    LET strip(w, q) ==
            LET keep == {i \in 1..Len(w) : w[i] # q}
            IN  IF keep = {} THEN <<>>
                ELSE SubSeq(w, min_of(keep), CHOOSE i \in keep : \A j \in keep : j <= i)
    IN  strip(strip(v, "\""), "'")

(* The column and the value the first listed operator of t splits t into. *)
SplitColumn(t) ==
    LET tok == operators[min_of(ListedOps(t))].tok
    IN  trim(Before(t, min_of(TokenAt(t, tok))))

SplitValue(t) ==
    LET tok == operators[min_of(ListedOps(t))].tok
    IN  Unquoted(trim(After(t, min_of(TokenAt(t, tok)), Len(tok))))

Parsed == out.op = "parse"

(***************************************************************************)
(* C2: OR has the lowest precedence and AND the next.  If the trimmed text *)
(* holds " OR " in any letter case and both sides of its first occurrence  *)
(* parse, the result is Or(parse(before), parse(after)); if it holds no    *)
(* " OR " but " AND ", the same with And at the first " AND ".             *)
(***************************************************************************)
C2_OrLowestThenAnd ==
    Parsed =>
        LET t == trim(pattern)
            io == IF HasKeyword(t, KW_OR) THEN min_of(KeywordAt(t, KW_OR)) ELSE -1
            ia == IF HasKeyword(t, KW_AND) THEN min_of(KeywordAt(t, KW_AND)) ELSE -1
        IN  /\ io # -1 =>
                LET l == parse(Before(t, io))
                    r == parse(After(t, io, 4))
                IN  is_expr(l) /\ is_expr(r) => out.res = Or(l, r)
            /\ io = -1 /\ ia # -1 =>
                LET l == parse(Before(t, ia))
                    r == parse(After(t, ia, 5))
                IN  is_expr(l) /\ is_expr(r) => out.res = And(l, r)

(* C2 on the texts in which no character changes its byte length when      *)
(* upper-cased: there the split is as C2 says.                             *)
C2_OnLengthPreservingTexts ==
    (\A i \in 1..Len(pattern) : pattern[i] # DOTLESS_I) => C2_OrLowestThenAnd

C2_Example ==
    /\ Parsed
    /\ pattern = <<"x">> \o KW_AND \o <<"y">> \o KW_OR \o <<"x">>
    /\ out.res = Or(And(GlobalSearch(<<"x">>), GlobalSearch(<<"y">>)),
                    GlobalSearch(<<"x">>))

(***************************************************************************)
(* C3: NOT is recognised exactly when the trimmed text holds neither       *)
(* " OR " nor " AND " and starts with "NOT " in any letter case, and the   *)
(* result is then Not(parse(remainder)); so "NOT x AND y" is               *)
(* And(Not(x), y) and "NOT NOT x" is Not(Not(x)).                          *)
(***************************************************************************)
C3_NotBindsTightest ==
    Parsed =>
        LET t == trim(pattern)
            keyword_free == ~HasKeyword(t, KW_OR) /\ ~HasKeyword(t, KW_AND)
            not_prefix == Len(t) >= 4 /\ SpelledAs(SubSeq(t, 1, 4), KW_NOT)
            inner == parse(After(t, 0, 4))
        IN  /\ keyword_free /\ not_prefix =>
                out.res = IF is_failure(inner) THEN inner ELSE Not(inner)
            /\ out.res.tag = "Not" => keyword_free /\ not_prefix
            /\ pattern = KW_NOT \o <<"x">> \o KW_AND \o <<"y">> =>
                out.res = And(Not(GlobalSearch(<<"x">>)), GlobalSearch(<<"y">>))
            /\ pattern = KW_NOT \o KW_NOT \o <<"x">> =>
                out.res = Not(Not(GlobalSearch(<<"x">>)))

C3_Witness ==
    /\ Parsed
    /\ pattern = recase(KW_NOT \o <<"x">> \o KW_AND \o <<"y">>, "mixed")
    /\ out.res = And(Not(GlobalSearch(<<"x">>)), GlobalSearch(<<"y">>))

(***************************************************************************)
(* C4: in a text without logical keyword the operator is the earliest      *)
(* entry of >=, <=, !=, =, >, <, : that occurs anywhere in it; the text is  *)
(* split at that operator's leftmost occurrence into the trimmed column    *)
(* and the trimmed, unquoted value.                                        *)
(***************************************************************************)
C4_EarliestListedOperator ==
    Parsed =>
        LET t == trim(pattern)
        IN  ListedOps(t) # {} /\ SplitColumn(t) # <<>> /\ SplitValue(t) # <<>> =>
                out.res = Comparison(SplitColumn(t),
                                     operators[min_of(ListedOps(t))].op,
                                     SplitValue(t))

(* "x:=x": the colon is further left, "=" is listed earlier and wins. *)
C4_Witness ==
    /\ Parsed
    /\ pattern = <<"x", ":", "=", "x">>
    /\ out.res = Comparison(<<"x", ":">>, "Equal", <<"x">>)

(***************************************************************************)
(* C5: when an operator token is found and the column or the value is      *)
(* empty after trimming and quote stripping, parse fails with              *)
(* InvalidComparison: no later-listed operator is tried and there is no    *)
(* fall back to global search.                                             *)
(***************************************************************************)
C5_EmptyPartIsInvalid ==
    Parsed =>
        LET t == trim(pattern)
        IN  ListedOps(t) # {} /\ (SplitColumn(t) = <<>> \/ SplitValue(t) = <<>>) =>
                out.res = Err("InvalidComparison")

(* "=>x": "=" has no column, though ">" would split into "=" and "x". *)
C5_Witness ==
    /\ Parsed
    /\ pattern = <<"=", ">", "x">>
    /\ out.res = Err("InvalidComparison")

(***************************************************************************)
(* C6: a text without logical keyword and without operator token parses    *)
(* to the global search for the whole trimmed text, quotes kept; a text    *)
(* with an operator token never does.                                      *)
(***************************************************************************)
C6_NoOperatorIsGlobalSearch ==
    Parsed =>
        LET t == trim(pattern)
        IN  /\ t # <<>> /\ ListedOps(t) = {} => out.res = GlobalSearch(t)
            /\ ListedOps(t) # {} => out.res # GlobalSearch(t)

C6_Witness ==
    /\ Parsed
    /\ pattern = <<" ", "\"", "x", "\"">>
    /\ out.res = GlobalSearch(<<"\"", "x", "\"">>)

(***************************************************************************)
(* Properties of the facade.                                               *)
(***************************************************************************)
Filtered == out.op = "filter"

RowAt(t, i) == [c \in 1..Len(t) |-> [valid |-> t[c].valid[i], data |-> t[c].data[i]]]

SameColumns(t, r) ==
    /\ Len(r) = Len(t)
    /\ \A c \in 1..Len(t) : r[c].name = t[c].name /\ r[c].dtype = t[c].dtype
    /\ \A c \in 1..Len(r) : Len(r[c].data) = height(r) /\ Len(r[c].valid) = height(r)

(* The j-th smallest member of the set of rows Sel. *)
NthOf(Sel, j) == CHOOSE i \in Sel : Cardinality({k \in Sel : k < i}) = j - 1

(* r holds exactly the rows Sel of t, each once, in the order of t: its    *)
(* j-th row is the j-th smallest row of Sel.                               *)
IsSelection(r, t, Sel) ==
    /\ SameColumns(t, r)
    /\ height(r) = Cardinality(Sel)
    /\ \A j \in 1..height(r) : RowAt(r, j) = RowAt(t, NthOf(Sel, j))

(***************************************************************************)
(* C1: when the text parses and evaluates, the table returned holds        *)
(* exactly the rows whose mask entry is true (none whose entry is false or *)
(* null), each once, in their original order, with all columns; its height *)
(* is the number of true entries.                                          *)
(***************************************************************************)
C1_ResultIsTrueRows ==
    Filtered /\ pattern # <<>> /\ out.res.tag = "Ok" =>
        LET mask == evaluate(parse(pattern), df).mask
        IN  /\ Len(mask) = height(df)
            /\ IsSelection(out.res.table, df,
                           {i \in 1..height(df) : mask[i] = "true"})

(* The first and the third of three different rows are kept; the second's  *)
(* mask entry is null.                                                     *)
C1_Witness ==
    /\ Filtered
    /\ pattern = <<"n", ">", "=", "1">>
    /\ evaluate(parse(pattern), df) = Mask(<<"true", "null", "true">>)
    /\ RowAt(df, 1) # RowAt(df, 3)
    /\ out.res.tag = "Ok"
    /\ height(out.res.table) = 2
    /\ RowAt(out.res.table, 2) = RowAt(df, 3)

(***************************************************************************)
(* C7: the facade called with the empty text returns a table equal to its  *)
(* table and no error.                                                     *)
(***************************************************************************)
C7_EmptyTextIsIdentity == Filtered /\ pattern = <<>> => out.res = Ok(df)

C7_Witness ==
    /\ Filtered
    /\ pattern = <<>>
    /\ height(df) = 2
    /\ RowAt(df, 1) # RowAt(df, 2)
    /\ out.res = Ok(df)

(***************************************************************************)
(* C8: the facade treats a text that is blank (whitespace only) as a       *)
(* no-op, returning the table unchanged, and never returns                 *)
(* EmptyExpression.                                                        *)
(***************************************************************************)
C8_BlankTextIsNoOp ==
    Filtered =>
        /\ pattern # <<>> /\ trim(pattern) = <<>> => out.res = Ok(df)
        /\ out.res # Err("EmptyExpression")

(***************************************************************************)
(* C9: a global search selects a row iff some String column holds in it a  *)
(* non-null value containing the pattern; other columns are skipped; it    *)
(* fails, with NoSearchableColumns, exactly when the table has no String   *)
(* column.                                                                 *)
(***************************************************************************)
C9_GlobalSearch ==
    LET expr == parse(pattern)
    IN
    Filtered /\ pattern # <<>> /\ expr.tag = "Comparison" /\ expr.column = STAR =>
        LET pat == expr.value
            textual == {c \in 1..Len(df) : df[c].dtype = "String"}
            hits == {i \in 1..height(df) :
                        \E c \in textual :
                            df[c].valid[i] /\ TokenAt(df[c].data[i], pat) # {}}
        IN  /\ textual = {} <=> out.res = Err("NoSearchableColumns")
            /\ textual # {} =>
                  out.res.tag = "Ok" /\ IsSelection(out.res.table, df, hits)

(* "x" on columns s, t: row 1 has no hit in s and a null in t, row 2 a     *)
(* null in s and a hit in t, row 3 a hit in s.                             *)
C9_Witness ==
    /\ Filtered
    /\ pattern = <<"x">>
    /\ df = table_of(<<Field(<<"s">>, "String"), Field(<<"t">>, "String")>>,
                     << <<Slot(<<"y">>), NullStr>>,
                        <<NullStr, Slot(<<"y", "x">>)>>,
                        <<Slot(<<"x">>), Slot(<<"y">>)>> >>)
    /\ out.res = Ok(table_of(<<Field(<<"s">>, "String"), Field(<<"t">>, "String")>>,
                             << <<NullStr, Slot(<<"y", "x">>)>>,
                                <<Slot(<<"x">>), Slot(<<"y">>)>> >>))

(***************************************************************************)
(* C10: a comparison on a named column that the table does not have fails  *)
(* with ColumnNotFound, whatever the operator and the value.               *)
(***************************************************************************)
C10_AbsentColumn ==
    LET expr == parse(pattern)
    IN
    Filtered /\ pattern # <<>> /\ expr.tag = "Comparison" /\ expr.column # STAR
             /\ (\A c \in 1..Len(df) : df[c].name # expr.column) =>
        out.res = Err("ColumnNotFound")

(* "q>=x": an ordering operator with a value that is no number. *)
C10_Witness ==
    /\ Filtered
    /\ pattern = <<"q", ">", "=", "x">>
    /\ height(df) = 2
    /\ out.res = Err("ColumnNotFound")

(***************************************************************************)
(* Properties of the comparison of a named column.                         *)
(***************************************************************************)
OrderingOps == {"GreaterThan", "LessThan", "GreaterOrEqual", "LessOrEqual"}

(* The text is a decimal number. *)
IsNumber(v) ==
    v # <<>> /\ \A i \in 1..Len(v) :
                  v[i] \in {"0", "1", "2", "3", "4", "5", "6", "7", "8", "9"}

NumberOf(v) ==
    LET digit(c) == CHOOSE d \in 0..9 :
                        c = <<"0", "1", "2", "3", "4", "5", "6", "7", "8", "9">>[d + 1]
        RECURSIVE val(_)
        val(k) == IF k = 0 THEN 0 ELSE 10 * val(k - 1) + digit(v[k])
    IN  val(Len(v))

CodePoint(c) ==
    CASE c = "1" -> 49 [] c = "5" -> 53 [] c = "x" -> 120 [] c = "y" -> 121

(* a stands before b in the lexicographic order of the code points. *)
LexLess(a, b) ==
    \E k \in 1..Len(b) :
        /\ k <= Len(a) + 1
        /\ \A j \in 1..(k - 1) : a[j] = b[j]
        /\ k = Len(a) + 1 \/ CodePoint(a[k]) < CodePoint(b[k])

LexHolds(op, a, b) ==
    CASE op = "GreaterThan" -> LexLess(b, a)
      [] op = "LessThan" -> LexLess(a, b)
      [] op = "GreaterOrEqual" -> ~LexLess(a, b)
      [] op = "LessOrEqual" -> ~LexLess(b, a)

NumHolds(op, a, b) ==
    CASE op = "GreaterThan" -> a > b
      [] op = "LessThan" -> a < b
      [] op = "GreaterOrEqual" -> a >= b
      [] op = "LessOrEqual" -> a <= b
      [] op = "Equal" -> a = b
      [] op = "NotEqual" -> a # b

(* The integer and floating column types. *)
IntegerOrFloat ==
    {"Int8", "Int16", "Int32", "Int64", "UInt8", "UInt16", "UInt32", "UInt64",
     "Float32", "Float64"}

(* The text is a comparison of a column the table has. *)
NamedComparison(e, t) ==
    /\ e.tag = "Comparison"
    /\ e.column # STAR
    /\ \E c \in 1..Len(t) : t[c].name = e.column

TheColumn(e, t) == t[CHOOSE c \in 1..Len(t) : t[c].name = e.column]

(***************************************************************************)
(* C11: for >, <, >= and <=: when the value is a number, a column that is  *)
(* not numeric (a textual one too) fails with TypeMismatch; when the value *)
(* is no number, a textual column is compared lexicographically (a null    *)
(* slot is not selected) and any other column fails with TypeMismatch.     *)
(***************************************************************************)
C11_OrderingTypeRules ==
    LET e == parse(pattern)
    IN
    Filtered /\ pattern # <<>> /\ NamedComparison(e, df) /\ e.op \in OrderingOps =>
        LET col == TheColumn(e, df)
        IN  /\ IsNumber(e.value) /\ col.dtype \notin IntegerOrFloat =>
                out.res = Err("TypeMismatch")
            /\ ~IsNumber(e.value) /\ col.dtype = "String" =>
                /\ out.res.tag = "Ok"
                /\ IsSelection(out.res.table, df,
                               {i \in 1..height(df) :
                                   col.valid[i] /\ LexHolds(e.op, col.data[i], e.value)})
            /\ ~IsNumber(e.value) /\ col.dtype # "String" =>
                out.res = Err("TypeMismatch")

(* "s>1" on a textual column: the value is a number, so the comparison is  *)
(* refused although the texts could be compared.                           *)
C11_Witness ==
    /\ Filtered
    /\ pattern = <<"s", ">", "1">>
    /\ height(df) = 2
    /\ column(df, <<"s">>).dtype = "String"
    /\ column(df, <<"s">>).valid = <<TRUE, TRUE>>
    /\ out.res = Err("TypeMismatch")

(* "s>=y" on the texts "yx", "y", null: the first two rows are selected. *)
C11_LexicographicExample ==
    /\ Filtered
    /\ pattern = <<"s", ">", "=", "y">>
    /\ df = table_of(<<Field(<<"s">>, "String"), Field(<<"n">>, "Int64")>>,
                     << <<Slot(<<"y", "x">>), Slot(1)>>, <<Slot(<<"y">>), NullInt>>,
                        <<NullStr, Slot(5)>> >>)
    /\ height(out.res.table) = 2

C12_NumericExample ==
    /\ Filtered
    /\ pattern = <<"n", "!", "=", "1">>
    /\ df = table_of(<<Field(<<"s">>, "String"), Field(<<"n">>, "Int64")>>,
                     << <<Slot(<<"y", "x">>), Slot(1)>>, <<Slot(<<"y">>), NullInt>>,
                        <<NullStr, Slot(5)>> >>)
    /\ out.res.tag = "Ok"
    /\ height(out.res.table) = 1

(***************************************************************************)
(* C13: Contains on a named column fails with TypeMismatch when the column *)
(* is not textual; on a textual column a row is selected iff its slot is   *)
(* not null and holds the value as a substring.                            *)
(***************************************************************************)
C13_ContainsRules ==
    LET e == parse(pattern)
    IN
    Filtered /\ pattern # <<>> /\ NamedComparison(e, df) /\ e.op = "Contains" =>
        LET col == TheColumn(e, df)
        IN  /\ col.dtype # "String" => out.res = Err("TypeMismatch")
            /\ col.dtype = "String" =>
                /\ out.res.tag = "Ok"
                /\ IsSelection(out.res.table, df,
                               {i \in 1..height(df) :
                                   col.valid[i] /\ TokenAt(col.data[i], e.value) # {}})

(* "s:x" on the texts null, "y", "yx": only the last row is selected. *)
C13_Witness ==
    /\ Filtered
    /\ pattern = <<"s", ":", "x">>
    /\ df = table_of(<<Field(<<"s">>, "String"), Field(<<"n">>, "Int64")>>,
                     << <<NullStr, Slot(5)>>, <<Slot(<<"y">>), NullInt>>,
                        <<Slot(<<"y", "x">>), Slot(1)>> >>)
    /\ out.res.tag = "Ok"
    /\ height(out.res.table) = 1
    /\ RowAt(out.res.table, 1) = RowAt(df, 3)

(* "n:1" on a column of numbers. *)
C13_NotTextualExample ==
    /\ Filtered
    /\ pattern = <<"n", ":", "1">>
    /\ height(df) = 2
    /\ out.res = Err("TypeMismatch")

(***************************************************************************)
(* C14: a comparison with a number succeeds on a column of every integer   *)
(* or floating type: the rows selected are those whose slot is not null    *)
(* and compares as asked; no such column is refused as not numeric.        *)
(***************************************************************************)
C14_EveryNumericTypeCompares ==
    LET e == parse(pattern)
    IN
    Filtered /\ pattern # <<>> /\ NamedComparison(e, df)
             /\ e.op # "Contains" /\ IsNumber(e.value)
             /\ TheColumn(e, df).dtype \in IntegerOrFloat =>
        LET col == TheColumn(e, df)
        IN  /\ out.res.tag = "Ok"
            /\ IsSelection(out.res.table, df,
                           {i \in 1..height(df) :
                               col.valid[i]
                               /\ NumHolds(e.op, col.data[i], NumberOf(e.value))})

(* C14 on the four types numeric_comparison tries: there it holds. *)
C14_OnTriedTypes ==
    LET e == parse(pattern)
    IN
    Filtered /\ pattern # <<>> /\ NamedComparison(e, df)
             /\ TheColumn(e, df).dtype \in {"Int64", "Int32", "Float64", "Float32"} =>
        C14_EveryNumericTypeCompares

(* "n>=1" on a UInt32 column. *)
C14_Example ==
    /\ Filtered
    /\ pattern = <<"n", ">", "=", "1">>
    /\ height(df) = 1
    /\ has_column(df, <<"n">>)
    /\ column(df, <<"n">>).dtype = "UInt32"
    /\ column(df, <<"n">>).valid[1]
    /\ out.res = Err("TypeMismatch")

(***************************************************************************)
(* Properties of the logical nodes.                                        *)
(***************************************************************************)
Applied == out.op = "apply"

(* The rows whose entry in the mask of e is v. *)
RowsWith(e, t, v) ==
    LET m == evaluate(e, t)
    IN  IF m.tag = "Mask" THEN {i \in 1..Len(m.mask) : m.mask[i] = v} ELSE {}

Evaluates(e, t) == evaluate(e, t).tag = "Mask"

(***************************************************************************)
(* C15: for Not(E), every row of the table is selected by exactly one of   *)
(* E and Not(E), the rows that E left out for a null slot too: Not(E)      *)
(* selects exactly the rows that E does not select.                        *)
(***************************************************************************)
C15_NotSelectsNullRows ==
    Applied /\ fexpr.tag = "Not" /\ Evaluates(fexpr.inner, df) =>
        /\ out.res.tag = "Ok"
        /\ IsSelection(out.res.table, df,
                       (1..height(df)) \ RowsWith(fexpr.inner, df, "true"))

(***************************************************************************)
(* C15 as amended: Not(E) selects exactly the rows whose entry in the mask *)
(* of E is false; a row whose entry is null is selected by neither E nor   *)
(* Not(E), so the negation of a comparison selects no row whose slot in    *)
(* the compared column is null.                                            *)
(***************************************************************************)
C15_NotKeepsNullRowsOut ==
    Applied /\ fexpr.tag = "Not" /\ Evaluates(fexpr.inner, df) =>
        /\ out.res.tag = "Ok"
        /\ IsSelection(out.res.table, df, RowsWith(fexpr.inner, df, "false"))
        /\ fexpr.inner.tag = "Comparison" =>
              \A j \in 1..height(out.res.table) :
                  TheColumn(fexpr.inner, out.res.table).valid[j]

(* NOT s:x on the nine rows: the three rows with the text "y" are selected, *)
(* the three rows without text are not.                                    *)
C15_Witness ==
    /\ Applied
    /\ fexpr = Not(Comparison(<<"s">>, "Contains", <<"x">>))
    /\ df = FullTable
    /\ out.res.tag = "Ok"
    /\ height(out.res.table) = 3
    /\ RowAt(out.res.table, 1) = RowAt(df, 4)

(***************************************************************************)
(* C16: every node of the tree has a mask with one entry per row; a row is *)
(* selected by And(l, r) iff it is selected by l and by r, by Or(l, r) iff *)
(* it is selected by l or by r; the entry of Not is true where its child's *)
(* is false and false where its child's is true.                           *)
(***************************************************************************)
RECURSIVE Nodes(_)
Nodes(e) ==
    {e} \cup (CASE e.tag = "Comparison" -> {}
                [] e.tag = "Not" -> Nodes(e.inner)
                [] OTHER -> Nodes(e.left) \cup Nodes(e.right))

C16_ElementwiseMasks ==
    Applied /\ out.res.tag = "Ok" =>
        /\ \A e \in Nodes(fexpr) :
              /\ Evaluates(e, df)
              /\ Len(evaluate(e, df).mask) = height(df)
        /\ fexpr.tag = "And" =>
              IsSelection(out.res.table, df,
                          RowsWith(fexpr.left, df, "true")
                              \cap RowsWith(fexpr.right, df, "true"))
        /\ fexpr.tag = "Or" =>
              IsSelection(out.res.table, df,
                          RowsWith(fexpr.left, df, "true")
                              \cup RowsWith(fexpr.right, df, "true"))
        /\ fexpr.tag = "Not" =>
              /\ RowsWith(fexpr, df, "true") = RowsWith(fexpr.inner, df, "false")
              /\ RowsWith(fexpr, df, "false") = RowsWith(fexpr.inner, df, "true")

(* s:x AND n>1 on the nine rows: only the row ("x", 5) is selected. *)
C16_Witness ==
    /\ Applied
    /\ fexpr = And(Comparison(<<"s">>, "Contains", <<"x">>),
                   Comparison(<<"n">>, "GreaterThan", <<"1">>))
    /\ df = FullTable
    /\ out.res = Ok(table_of(<<Field(<<"s">>, "String"), Field(<<"n">>, "Int64")>>,
                             << <<Slot(<<"x">>), Slot(5)>> >>))

(* s:x OR n>1 on the nine rows: the rows with "x" or 5, one of whose slots *)
(* may be null.                                                            *)
C16_OrExample ==
    /\ Applied
    /\ fexpr = Or(Comparison(<<"s">>, "Contains", <<"x">>),
                  Comparison(<<"n">>, "GreaterThan", <<"1">>))
    /\ df = FullTable
    /\ out.res.tag = "Ok"
    /\ height(out.res.table) = 5

(***************************************************************************)
(* C17: an error ends the call: when a comparison of the tree fails to     *)
(* evaluate, apply returns the error of the first such comparison from the *)
(* left and no table, also when the other operand of an Or selects rows;   *)
(* when one of two joined texts fails to parse, the facade returns that    *)
(* error, the left text's before the right's, and evaluates nothing.       *)
(***************************************************************************)
RECURSIVE Leaves(_)
Leaves(e) ==
    CASE e.tag = "Comparison" -> <<e>>
      [] e.tag = "Not" -> Leaves(e.inner)
      [] OTHER -> Leaves(e.left) \o Leaves(e.right)

FailingLeaves(e, t) ==
    {k \in 1..Len(Leaves(e)) : ~Evaluates(Leaves(e)[k], t)}

C17_OrExample ==
    /\ Applied
    /\ fexpr = Or(Comparison(<<"s">>, "Contains", <<"x">>),
                  Comparison(<<"n">>, "GreaterThan", <<"1">>))
    /\ RowsWith(fexpr.left, df, "true") # {}
    /\ out.res = Err("TypeMismatch")

(* "s:x OR n>" on a table the left text selects rows of. *)
C17_ParseExample ==
    /\ Filtered
    /\ pattern = <<"s", ":", "x">> \o KW_OR \o <<"n", ">">>
    /\ df = FullTable
    /\ out.res = Err("InvalidComparison")

(***************************************************************************)
(* C18: Or(E1, E2) and Or(E2, E1), and And(E1, E2) and And(E2, E1), have   *)
(* the same outcome on every table: both fail, or both return the same     *)
(* rows.                                                                   *)
(***************************************************************************)
Swapped(e) ==
    IF e.tag = "And" THEN And(e.right, e.left) ELSE Or(e.right, e.left)

C18_Commutative ==
    Applied /\ fexpr.tag \in {"And", "Or"} =>
        LET other == apply(Swapped(fexpr), df)
        IN  IF out.res.tag = "Ok" THEN other = out.res
            ELSE is_failure(out.res) /\ is_failure(other)

(* Two operands that select different rows, and the union of them. *)
C18_Witness ==
    /\ Applied
    /\ fexpr = Or(Comparison(<<"n">>, "GreaterThan", <<"1">>),
                  Comparison(<<"s">>, "Contains", <<"x">>))
    /\ df = FullTable
    /\ RowsWith(fexpr.left, df, "true") # RowsWith(fexpr.right, df, "true")
    /\ out.res.tag = "Ok"
    /\ height(out.res.table) = 5

(* Two operands that fail differently: the two orders give different      *)
(* errors, both fail.                                                      *)
C18_FailureExample ==
    /\ Applied
    /\ fexpr.tag = "And"
    /\ out.res = Err("ColumnNotFound")
    /\ apply(Swapped(fexpr), df) = Err("TypeMismatch")

(***************************************************************************)
(* C19: when the mask of E has no null entry, Not(Not(E)) selects exactly  *)
(* the rows that E selects.                                                *)
(***************************************************************************)
C19_DoubleNegation ==
    Applied /\ fexpr.tag = "Not" /\ fexpr.inner.tag = "Not"
            /\ Evaluates(fexpr.inner.inner, df)
            /\ RowsWith(fexpr.inner.inner, df, "null") = {} =>
        /\ out.res.tag = "Ok"
        /\ out.res = apply(fexpr.inner.inner, df)
        /\ IsSelection(out.res.table, df, RowsWith(fexpr.inner.inner, df, "true"))

(* NOT NOT s:x on three rows without null, of which two hold an x. *)
C19_Witness ==
    /\ Applied
    /\ fexpr = Not(Not(Comparison(<<"s">>, "Contains", <<"x">>)))
    /\ df = PlainTable
    /\ out.res.tag = "Ok"
    /\ height(out.res.table) = 2
    /\ RowAt(out.res.table, 2) = RowAt(df, 3)

(***************************************************************************)
(* C20: when the application applies a filter text that fails to parse or  *)
(* to evaluate, the table displayed and scroll_offset stay as they are and *)
(* error_message is set; no step changes the original table.               *)
(***************************************************************************)
C20_FailedFilterKeepsState ==
    [][/\ df' = df
       /\ (KeyEnter \/ KeyEsc) /\ is_failure(filter(df, filter_pattern')) =>
             /\ filtered_df' = filtered_df
             /\ scroll_offset' = scroll_offset
             /\ filter_pattern' = filter_pattern
             /\ error_message' = filter(df, filter_pattern')]_vars

(* The text "x:" has just failed to parse while the rows found for an      *)
(* earlier text are displayed from the second row on.                      *)
C20_Witness ==
    /\ Running /\ ~filter_mode
    /\ filter_pattern = <<"x", ":">>
    /\ error_message = Err("InvalidComparison")
    /\ df = LongTable
    /\ height(filtered_df) = page_size + 1
    /\ scroll_offset = 1

(***************************************************************************)
(* C21: parse and evaluate terminate on every text and table.  Every       *)
(* recursive call of parse receives a text strictly shorter, in bytes,     *)
(* than the text of the call that makes it; evaluate is called at most     *)
(* once on a node of the tree, and exactly once on every node when the     *)
(* filter succeeds; a call that has not returned has a pending call; and   *)
(* every step lowers a measure that cannot fall for ever.                  *)
(***************************************************************************)
RECURSIVE Paths(_)
Paths(e) ==
    {<<>>} \cup
    (CASE e.tag = "Comparison" -> {}
       [] e.tag = "Not" -> {<<"inner">> \o p : p \in Paths(e.inner)}
       [] OTHER -> {<<"left">> \o p : p \in Paths(e.left)}
                   \cup {<<"right">> \o p : p \in Paths(e.right)})

Made(fn) == {i \in 1..Len(trace) : trace[i].fn = fn}

(* The work a sequence of pending calls can still cause. *)
RECURSIVE Weight(_)
Weight(calls) ==
    IF calls = <<>> THEN 0
    ELSE Weight(Tail(calls)) +
         (IF Head(calls).fn = "parse" THEN byte_len(Head(calls).text) + 1
          ELSE Cardinality(Paths(Head(calls).expr)))

(* Not entered, parsing, evaluating, returned. *)
Rank(o, calls) ==
    CASE o = Idle -> 3
      [] o = InProgress /\ calls # <<>> /\ Head(calls).fn = "parse" -> 2
      [] o = InProgress -> 1
      [] OTHER -> 0

C21_Terminates ==
    /\ [](/\ \A i \in Made("parse") :
                trace[i].depth > 0 =>
                    byte_len(trace[i].text) < byte_len(trace[i].caller)
          /\ \A i, j \in Made("evaluate") :
                i # j => trace[i].path # trace[j].path
          /\ out.op = "filter" /\ fexpr # NoExpr /\ ~is_failure(out.res) =>
                {trace[i].path : i \in Made("evaluate")} = Paths(fexpr)
          /\ out = InProgress => stack # <<>>)
    /\ [][\/ Rank(out', stack') < Rank(out, stack)
          \/ /\ Rank(out', stack') = Rank(out, stack)
             /\ Weight(stack') < Weight(stack)]_vars

(* "NOT x OR x" has been filtered with: parse called itself two levels     *)
(* deep and evaluate ran on each of the four nodes.                        *)
C21_Witness ==
    /\ pattern = <<"N", "O", "T", " ", "x", " ", "O", "R", " ", "x">>
    /\ df = ShortTable
    /\ out.op = "filter" /\ ~is_failure(out.res)
    /\ \E i \in Made("parse") : trace[i].depth = 2
    /\ Cardinality(Made("evaluate")) = 4

(* Two dotless i before OR: the text is split inside the keyword, and the  *)
(* calls still end.                                                        *)
C21_ShiftedSplitExample ==
    /\ pattern = <<DOTLESS_I, DOTLESS_I>> \o KW_OR \o <<"x">>
    /\ out.op = "filter"
    /\ fexpr = Or(GlobalSearch(<<DOTLESS_I>>), GlobalSearch(<<"R", " ", "x">>))
    /\ Cardinality(Made("parse")) = 3

(***************************************************************************)
(* C22: after any sequence of operations on the filter input, with         *)
(* characters of any byte length, filter_cursor is at most the length in   *)
(* bytes of filter_pattern and on a character boundary of it.              *)
(***************************************************************************)
C22_CursorOnBoundary ==
    Running =>
        /\ filter_cursor <= byte_len(filter_pattern)
        /\ is_char_boundary(filter_pattern, filter_cursor)

(* U+0131 has been typed into the empty input: the cursor is inside it,    *)
(* and the next draw has aborted the program.                              *)
C22_Example ==
    /\ filter_mode
    /\ filter_pattern = <<DOTLESS_I>>
    /\ filter_cursor = 1
    /\ out = Aborted

(***************************************************************************)
(* C23: whenever the application is outside filter mode and shows no       *)
(* error, the table displayed is the result of filtering the original      *)
(* table with the current filter_pattern.                                  *)
(***************************************************************************)
C23_ShownFilterInEffect ==
    Running /\ ~filter_mode /\ error_message = None =>
        Ok(filtered_df) = filter(df, filter_pattern)

(* "x" was typed and the input left with Esc: the text is shown as the     *)
(* active filter over the whole table, which it does not select.           *)
C23_Example ==
    /\ Running /\ ~filter_mode /\ error_message = None
    /\ df = ShortTable
    /\ filter_pattern = <<"x">>
    /\ filtered_df = df
    /\ filter(df, filter_pattern) # Ok(df)

(***************************************************************************)
(* C24: in every state scroll_offset is at most the number of rows         *)
(* displayed less page_size, or 0 when there are fewer; and a filter       *)
(* application that succeeds, on Enter or by clear_filter, sets it to 0.   *)
(***************************************************************************)
C24_ScrollWithinRows ==
    /\ [](scroll_offset <= saturating_sub(height(filtered_df), page_size))
    /\ [][(KeyEnter \/ KeyEsc) /\ ~is_failure(filter(df, filter_pattern')) =>
             scroll_offset' = 0]_vars

(* The last page of the twenty-one rows found for "x" is displayed: the    *)
(* offset stands at its bound, below the bound of the whole table.         *)
C24_Witness ==
    /\ Running /\ ~filter_mode /\ error_message = None
    /\ df = LongTable
    /\ filter_pattern = <<"x">>
    /\ height(filtered_df) = page_size + 1
    /\ scroll_offset = 1
    /\ scroll_offset < saturating_sub(height(df), page_size)

(***************************************************************************)
(* C25: the byte position at which " OR " or " AND " is found in the       *)
(* upper-cased copy of the trimmed text, or 4 after a "NOT " prefix of     *)
(* it, is a character boundary of the text itself, as is the end of the    *)
(* keyword, and the text spells the keyword there; and parse returns an    *)
(* expression or an error, never aborting on a slice.                      *)
(***************************************************************************)
KeywordIsAt(input, pos, kw) ==
    /\ is_char_boundary(input, pos)
    /\ is_char_boundary(input, pos + Len(kw))
    /\ SpelledAs(SubSeq(input, char_index(input, pos) + 1,
                               char_index(input, pos + Len(kw))), kw)

C25_KeywordWhereFound ==
    Parsed =>
        /\ out.res # Panic
        /\ \A kw \in {KW_OR, KW_AND} :
              find(to_uppercase(trim(pattern)), kw) # -1 =>
                  KeywordIsAt(trim(pattern), find(to_uppercase(trim(pattern)), kw), kw)
        /\ starts_with(to_uppercase(trim(pattern)), KW_NOT) =>
              KeywordIsAt(trim(pattern), 0, KW_NOT)

(* One dotless i before OR: the position found is inside the character     *)
(* and the call aborts.                                                    *)
C25_AbortExample ==
    /\ Parsed
    /\ pattern = <<DOTLESS_I>> \o KW_OR \o <<"x">>
    /\ find(to_uppercase(pattern), KW_OR) = 1
    /\ ~is_char_boundary(pattern, 1)
    /\ out.res = Panic

(* Two dotless i before OR: the position found is a boundary, two bytes    *)
(* before the keyword, and the text is split without any failure into the  *)
(* first character and "R x".                                              *)
C25_ShiftedExample ==
    /\ Parsed
    /\ pattern = <<DOTLESS_I, DOTLESS_I>> \o KW_OR \o <<"x">>
    /\ find(to_uppercase(pattern), KW_OR) = 2
    /\ find(pattern, KW_OR) = 4
    /\ out.res = Or(GlobalSearch(<<DOTLESS_I>>), GlobalSearch(<<"R", " ", "x">>))

=============================================================================
